---- MODULE Spec2Model ----
(***************************************************************************)
(* Model of the DonPAPI MCP adapter (src/mcp_server.py): the tool          *)
(* dispatcher call_tool, the one-shot command runner run_donpapi_command   *)
(* and the process-wide GUI handle gui_process, together with the          *)
(* operating-system processes the adapter spawns.                          *)
(*                                                                         *)
(* Text is modelled as a sequence of one-character strings, so that        *)
(* str.split, str.join and str() are computed rather than assumed.         *)
(***************************************************************************)
EXTENDS Integers, Sequences, FiniteSets, TLC

VARIABLES
    gui_process,   \* the global handle: None or the pid of the Popen object
    procs,         \* pid -> "free" | "alive" | "terminating" | "exited"
    lastCall,      \* name of the last call_tool invocation (NoCall before any)
    arguments,     \* the parameter bundle of that call (a dict: key -> value)
    response,      \* text of the TextContent the call returned
    runner_args,   \* the args vectors handed to run_donpapi_command by the call
    execs,         \* the subprocess launches the call attempted, in order
    result,        \* the dict run_donpapi_command returned (NoResult otherwise)
    spawned,       \* pids of the processes the call created with Popen
    terminated,    \* pids on which the call invoked terminate(), in order
    pre,           \* the handle as the call found it: "none" | "alive" | "exited"
    guiLog,        \* the last (at most two) GUI calls: [op, resp]
    exitSince,     \* the tracked process exited since the last GUI call
    outcome,       \* how the subprocess launch of the call ended (NoOutcome if none)
    event          \* what the last step was: "init" | "call" | "exit"

vars == <<gui_process, procs, lastCall, arguments, response, runner_args,
          execs, result, spawned, terminated, pre, guiLog, exitSince, outcome,
          event>>

----------------------------------------------------------------------------
(* Bounds of the model *)

\* number of process-table slots available to the adapter's GUI children
MaxProcs == 2
\* longest targets string drawn for donpapi_collect
MaxTargetLen == 3

----------------------------------------------------------------------------
(* Program constants *)

None == 0
GUI_PORT == 8088
DefaultTimeout == 600

NoCall == "(none)"
NoResult == <<>>
EmptyArgs == <<>>

Pids == 1..MaxProcs
Live == {"alive", "terminating"}

----------------------------------------------------------------------------
(* Text helpers *)

Digit == <<"0", "1", "2", "3", "4", "5", "6", "7", "8", "9">>

RECURSIVE Str(_)
\* str(n) for a non-negative integer
Str(n) ==
    IF n < 10 THEN <<Digit[n + 1]>>
    ELSE Str(n \div 10) \o <<Digit[(n % 10) + 1]>>

Whitespace == {" ", "\t"}

RECURSIVE SkipWs(_, _)
SkipWs(s, i) ==
    IF i <= Len(s) /\ s[i] \in Whitespace THEN SkipWs(s, i + 1) ELSE i

RECURSIVE SkipWord(_, _)
SkipWord(s, i) ==
    IF i <= Len(s) /\ s[i] \notin Whitespace THEN SkipWord(s, i + 1) ELSE i

RECURSIVE SplitFrom(_, _)
SplitFrom(s, i) ==
    LET j == SkipWs(s, i) IN
    IF j > Len(s) THEN <<>>
    ELSE LET k == SkipWord(s, j)
         IN  <<SubSeq(s, j, k - 1)>> \o SplitFrom(s, k)

\* s.split(): the maximal whitespace-free runs of s, in order
Split(s) == SplitFrom(s, 1)

RECURSIVE JoinFrom(_, _, _)
JoinFrom(sep, parts, i) ==
    IF i > Len(parts) THEN <<>>
    ELSE IF i = Len(parts) THEN parts[i]
    ELSE parts[i] \o sep \o JoinFrom(sep, parts, i + 1)

\* sep.join(parts)
Join(sep, parts) == JoinFrom(sep, parts, 1)

\* arguments.get(k, default)
Get(a, k, default) == IF k \in DOMAIN a THEN a[k] ELSE default

----------------------------------------------------------------------------
(* Tokens of the command lines *)

T_donpapi == <<"d", "o", "n", "p", "a", "p", "i">>
T_collect == <<"c", "o", "l", "l", "e", "c", "t">>
T_gui     == <<"g", "u", "i">>
T_u       == <<"-", "u">>
T_p       == <<"-", "p">>
T_d       == <<"-", "d">>
T_H       == <<"-", "H">>
T_k       == <<"-", "k">>
T_t       == <<"-", "t">>
T_c       == <<"-", "c">>
T_threads == <<"-", "-", "t", "h", "r", "e", "a", "d", "s">>
T_bind    == <<"-", "-", "b", "i", "n", "d">>
T_port    == <<"-", "-", "p", "o", "r", "t">>
BindAll   == <<"0", ".", "0", ".", "0", ".", "0">>

----------------------------------------------------------------------------
(* Inputs *)

V_user       == <<"a", "l">>
V_password   == <<"p", "w">>
V_domain     == <<"c", "o">>
V_hashes     == <<"a", ":", "b">>
V_collectors == <<"F", "x">>
V_loopback   == <<"1", "2", "7", ".", "1">>

TargetChars == {"a", " ", "\t"}

\* every targets string of at most MaxTargetLen characters
TargetStrings == UNION {[1..n -> TargetChars] : n \in 0..MaxTargetLen}

CollectKeys == {"username", "password", "domain", "hashes", "use_kerberos",
                "targets", "collectors", "threads"}

\* a dict holding the keys ks, with the values v gives them
Dict(ks, v) == [k \in ks |-> v[k]]

CollectValues ==
    [username : {V_user}, password : {V_password}, domain : {V_domain},
     hashes : {V_hashes}, use_kerberos : BOOLEAN, targets : TargetStrings,
     collectors : {V_collectors}, threads : {7, 50}]

\* every donpapi_collect bundle: any subset of the keys, any of the values
Bundles == {Dict(ks, v) : ks \in SUBSET CollectKeys, v \in CollectValues}

MinimalBundle ==
    [k \in {"username", "targets"} |->
        IF k = "username" THEN V_user ELSE <<"a", " ", "a">>]

\* the bundles the dispatcher is driven with next to the GUI calls
SmallBundles == {MinimalBundle}

GuiValues == [port : {9000}, bind : {V_loopback}]
GuiArgs == {Dict(ks, v) : ks \in SUBSET {"port", "bind"}, v \in GuiValues}

UnknownNames == {"donpapi_status", ""}

\* str(e) of the exceptions a launch can raise
E_notfound == <<"E", "N", "O", "E", "N", "T">>
E_denied   == <<"E", "A", "C", "C", "E", "S">>
Errors == {E_notfound, E_denied}

\* how subprocess.run can end: the child exits, the wait times out, or the
\* launch raises
RunOutcomes ==
    [kind : {"exit"}, returncode : {0, 1}, stdout : {<<"o", "k">>},
     stderr : {<<>>, <<"e">>}, desc : {<<>>}]
    \cup [kind : {"timeout"}, returncode : {0}, stdout : {<<>>},
          stderr : {<<>>}, desc : {<<>>}]
    \cup [kind : {"error"}, returncode : {0}, stdout : {<<>>},
          stderr : {<<>>}, desc : Errors]

\* how subprocess.Popen can end: the child is created, or the launch raises
PopenOutcomes ==
    [kind : {"ok"}, returncode : {0}, stdout : {<<>>},
     stderr : {<<>>}, desc : {<<>>}]
    \cup [kind : {"error"}, returncode : {0}, stdout : {<<>>},
          stderr : {<<>>}, desc : Errors]

\* no subprocess was launched
NoOutcome ==
    [kind |-> "none", returncode |-> 0, stdout |-> <<>>, stderr |-> <<>>,
     desc |-> <<>>]

----------------------------------------------------------------------------
(* Command Runner *)

\* the args vector with -k added whenever the key use_kerberos is given
CollectArgsKerberosKey(a) ==
    LET a0 == <<T_collect>>
        a1 == IF "username" \in DOMAIN a
              THEN a0 \o <<T_u, a["username"]>> ELSE a0
        a2 == IF "password" \in DOMAIN a
              THEN a1 \o <<T_p, a["password"]>> ELSE a1
        a3 == IF "domain" \in DOMAIN a
              THEN a2 \o <<T_d, a["domain"]>> ELSE a2
        a4 == IF "hashes" \in DOMAIN a
              THEN a3 \o <<T_H, a["hashes"]>> ELSE a3
        a5 == IF "use_kerberos" \in DOMAIN a
              THEN Append(a4, T_k) ELSE a4
        a6 == IF "targets" \in DOMAIN a
              THEN a5 \o (<<T_t>> \o Split(a["targets"])) ELSE a5
        a7 == IF "collectors" \in DOMAIN a
              THEN a6 \o <<T_c, a["collectors"]>> ELSE a6
        a8 == IF "threads" \in DOMAIN a
              THEN a7 \o <<T_threads, Str(a["threads"])>> ELSE a7
    IN  a8

\* the args vector the donpapi_collect branch builds from the bundle a
CollectArgs(a) ==
    LET a0 == <<T_collect>>
        a1 == IF "username" \in DOMAIN a
              THEN a0 \o <<T_u, a["username"]>> ELSE a0
        a2 == IF "password" \in DOMAIN a
              THEN a1 \o <<T_p, a["password"]>> ELSE a1
        a3 == IF "domain" \in DOMAIN a
              THEN a2 \o <<T_d, a["domain"]>> ELSE a2
        a4 == IF "hashes" \in DOMAIN a
              THEN a3 \o <<T_H, a["hashes"]>> ELSE a3
        a5 == IF Get(a, "use_kerberos", FALSE)
              THEN Append(a4, T_k) ELSE a4
        a6 == IF "targets" \in DOMAIN a
              THEN a5 \o (<<T_t>> \o Split(a["targets"])) ELSE a5
        a7 == IF "collectors" \in DOMAIN a
              THEN a6 \o <<T_c, a["collectors"]>> ELSE a6
        a8 == IF "threads" \in DOMAIN a
              THEN a7 \o <<T_threads, Str(a["threads"])>> ELSE a7
    IN  a8

\* the subprocess launches run_donpapi_command makes for args
RunExecs(args) == <<[via |-> "run", cmd |-> <<T_donpapi>> \o args]>>

TimedOutAfter ==
    <<"C", "o", "m", "m", "a", "n", "d", " ", "t", "i", "m", "e", "d", " ",
      "o", "u", "t", " ", "a", "f", "t", "e", "r", " ">>

\* the dict with success set whenever the child exited, whatever its code
RunResultIgnoresCode(args, timeout, o) ==
    LET cmd == <<T_donpapi>> \o args IN
    IF o.kind = "exit"
    THEN [success |-> TRUE,
          stdout  |-> o.stdout,
          stderr  |-> o.stderr,
          command |-> Join(<<" ">>, cmd)]
    ELSE IF o.kind = "timeout"
    THEN [success |-> FALSE,
          error   |-> TimedOutAfter \o Str(timeout) \o <<"s">>]
    ELSE [success |-> FALSE, error |-> o.desc]

\* the dict run_donpapi_command returns when subprocess.run ends as o
RunResult(args, timeout, o) ==
    LET cmd == <<T_donpapi>> \o args IN
    IF o.kind = "exit"
    THEN [success |-> (o.returncode = 0),
          stdout  |-> o.stdout,
          stderr  |-> o.stderr,
          command |-> Join(<<" ">>, cmd)]
    ELSE IF o.kind = "timeout"
    THEN [success |-> FALSE,
          error   |-> TimedOutAfter \o Str(timeout) \o <<"s">>]
    ELSE [success |-> FALSE, error |-> o.desc]

\* json.dumps(result, indent=2): the object's members in insertion order
JsonDumps(r) ==
    IF "error" \in DOMAIN r
    THEN <<"{", << <<"success", r.success>>, <<"error", r.error>> >>, "}">>
    ELSE <<"{", << <<"success", r.success>>, <<"stdout", r.stdout>>,
                   <<"stderr", r.stderr>>, <<"command", r.command>> >>, "}">>

----------------------------------------------------------------------------
(* GUI Process Manager *)

AlreadyRunning == <<"GUI is already running.">>
Stopped        == <<"DonPAPI GUI stopped.">>
NotRunning     == <<"GUI is not running.">>
StartedText(a) ==
    <<"DonPAPI GUI started on http://", Get(a, "bind", BindAll), ":",
      Str(Get(a, "port", GUI_PORT))>>
FailedText(e)  == <<"Failed to start GUI: ", e>>
UnknownText(name) == <<"Unknown tool: ", name>>

\* the guard with the poll() test inverted
IsRunningInverted(h, ps) == h # None /\ ps[h] \notin Live

\* the guard without the poll(): a handle counts as running
IsRunningNoPoll(h, ps) == h # None

\* gui_process and gui_process.poll() is None
IsRunning(h, ps) == h # None /\ ps[h] \in Live

\* what a call finds in the handle
HandleState(h, ps) ==
    IF h = None THEN "none"
    ELSE IF ps[h] \in Live THEN "alive" ELSE "exited"

\* the command line of the GUI
PopenCmd(a) ==
    <<T_donpapi, T_gui, T_bind, Get(a, "bind", BindAll),
      T_port, Str(Get(a, "port", GUI_PORT))>>

\* a terminate() that waits for the process to exit
TerminateAndWait(ps, h) ==
    IF ps[h] = "alive" THEN [ps EXCEPT ![h] = "exited"] ELSE ps

\* Popen.terminate(): signals a live process, does nothing to an exited one
Terminate(ps, h) ==
    IF ps[h] = "alive" THEN [ps EXCEPT ![h] = "terminating"] ELSE ps

\* the reference to h is dropped: an exited process leaves the table
Release(ps, h) ==
    IF h # None /\ ps[h] = "exited" THEN [ps EXCEPT ![h] = "free"] ELSE ps

\* the donpapi_stop_gui branch without the gui_process = None assignment
StopEffectKeepsHandle(h, ps) ==
    IF h # None
    THEN [handle |-> h, procs |-> Terminate(ps, h),
          terminated |-> <<h>>, response |-> Stopped]
    ELSE [handle |-> h, procs |-> ps,
          terminated |-> <<>>, response |-> NotRunning]

\* the donpapi_stop_gui branch on the handle h
StopEffect(h, ps) ==
    IF h # None
    THEN [handle |-> None, procs |-> Release(Terminate(ps, h), h),
          terminated |-> <<h>>, response |-> Stopped]
    ELSE [handle |-> h, procs |-> ps,
          terminated |-> <<>>, response |-> NotRunning]

\* the last two GUI calls
Push(log, e) == IF Len(log) < 2 THEN Append(log, e) ELSE <<log[2], e>>

----------------------------------------------------------------------------
(* Tool Registry / Dispatch *)

\* the chain with the last elif taken as the else
BranchWithoutElse(name) ==
    IF name = "donpapi_collect" THEN "collect"
    ELSE IF name = "donpapi_start_gui" THEN "start_gui"
    ELSE "stop_gui"

\* the if / elif chain on the operation name
Branch(name) ==
    IF name = "donpapi_collect" THEN "collect"
    ELSE IF name = "donpapi_start_gui" THEN "start_gui"
    ELSE IF name = "donpapi_stop_gui" THEN "stop_gui"
    ELSE "unknown"

\* what every branch records of the call it serves
Called(name, a) ==
    /\ lastCall' = name
    /\ arguments' = a
    /\ pre' = HandleState(gui_process, procs)
    /\ event' = "call"

Collect(name, a, ro) ==
    /\ Branch(name) = "collect"
    /\ Called(name, a)
    /\ \E args \in {CollectArgs(a)} :
       \E res \in {RunResult(args, DefaultTimeout, ro)} :
           /\ runner_args' = <<args>>
           /\ execs' = RunExecs(args)
           /\ result' = res
           /\ response' = JsonDumps(res)
    /\ outcome' = ro
    /\ spawned' = {}
    /\ terminated' = <<>>
    /\ UNCHANGED <<gui_process, procs, guiLog, exitSince>>

StartGui(name, a, po) ==
    /\ Branch(name) = "start_gui"
    /\ Called(name, a)
    /\ runner_args' = <<>>
    /\ result' = NoResult
    /\ terminated' = <<>>
    /\ exitSince' = FALSE
    /\ IF IsRunning(gui_process, procs)
       THEN /\ response' = AlreadyRunning
            /\ execs' = <<>>
            /\ outcome' = NoOutcome
            /\ spawned' = {}
            /\ UNCHANGED <<gui_process, procs>>
       ELSE /\ execs' = <<[via |-> "Popen", cmd |-> PopenCmd(a)]>>
            /\ outcome' = po
            /\ \/ /\ po.kind = "ok"
                  /\ \E p \in Pids :
                        /\ procs[p] = "free"
                        /\ gui_process' = p
                        /\ procs' = [Release(procs, gui_process)
                                        EXCEPT ![p] = "alive"]
                        /\ spawned' = {p}
                  /\ response' = StartedText(a)
               \/ /\ po.kind = "error"
                  /\ response' = FailedText(po.desc)
                  /\ spawned' = {}
                  /\ UNCHANGED <<gui_process, procs>>
    /\ guiLog' = Push(guiLog, [op |-> "start", resp |-> response'])

StopGui(name, a) ==
    /\ Branch(name) = "stop_gui"
    /\ Called(name, a)
    /\ LET e == StopEffect(gui_process, procs)
       IN  /\ gui_process' = e.handle
           /\ procs' = e.procs
           /\ terminated' = e.terminated
           /\ response' = e.response
           /\ guiLog' = Push(guiLog, [op |-> "stop", resp |-> e.response])
    /\ runner_args' = <<>>
    /\ execs' = <<>>
    /\ outcome' = NoOutcome
    /\ result' = NoResult
    /\ spawned' = {}
    /\ exitSince' = FALSE

UnknownTool(name, a) ==
    /\ Branch(name) = "unknown"
    /\ Called(name, a)
    /\ response' = UnknownText(name)
    /\ runner_args' = <<>>
    /\ execs' = <<>>
    /\ outcome' = NoOutcome
    /\ result' = NoResult
    /\ spawned' = {}
    /\ terminated' = <<>>
    /\ UNCHANGED <<gui_process, procs, guiLog, exitSince>>

\* one call of call_tool(name, a); ro and po are how its subprocess ends
CallTool(name, a, ro, po) ==
    \/ Collect(name, a, ro)
    \/ StartGui(name, a, po)
    \/ StopGui(name, a)
    \/ UnknownTool(name, a)

ToolNames == {"donpapi_collect", "donpapi_start_gui", "donpapi_stop_gui"}
Names == ToolNames \cup UnknownNames

\* the inputs a call of the given name is driven with
ArgsFor(name) ==
    IF name = "donpapi_collect" THEN SmallBundles
    ELSE IF name = "donpapi_start_gui" THEN GuiArgs
    ELSE {EmptyArgs}
RunsFor(name) ==
    IF name = "donpapi_collect" THEN RunOutcomes
    ELSE {CHOOSE o \in RunOutcomes : TRUE}
PopensFor(name) ==
    IF name = "donpapi_start_gui" THEN PopenOutcomes
    ELSE {CHOOSE o \in PopenOutcomes : TRUE}

Call ==
    \E name \in Names :
        \E a \in ArgsFor(name), ro \in RunsFor(name), po \in PopensFor(name) :
            CallTool(name, a, ro, po)

\* a GUI process of the adapter exits (on its own, or after terminate())
ProcessExit ==
    \E p \in Pids :
        /\ procs[p] \in Live
        /\ procs' = [procs EXCEPT
                        ![p] = IF p = gui_process THEN "exited" ELSE "free"]
        /\ exitSince' = (exitSince \/ p = gui_process)
        /\ event' = "exit"
        /\ UNCHANGED <<gui_process, lastCall, arguments, response,
                       runner_args, execs, result, spawned, terminated,
                       pre, guiLog, outcome>>

Init ==
    /\ gui_process = None
    /\ procs = [p \in Pids |-> "free"]
    /\ lastCall = NoCall
    /\ arguments = EmptyArgs
    /\ response = <<>>
    /\ runner_args = <<>>
    /\ execs = <<>>
    /\ result = NoResult
    /\ spawned = {}
    /\ terminated = <<>>
    /\ pre = "none"
    /\ guiLog = <<>>
    /\ exitSince = FALSE
    /\ outcome = NoOutcome
    /\ event = "init"

Next ==
    \/ Call
    \/ ProcessExit

Spec == Init /\ [][Next]_vars

(* The command runner on every parameter bundle: the bundle is the request *)
(* in flight, and the one step is the donpapi_collect call that serves it. *)

InitCollect ==
    /\ gui_process = None
    /\ procs = [p \in Pids |-> "free"]
    /\ lastCall = NoCall
    /\ arguments \in Bundles
    /\ response = <<>>
    /\ runner_args = <<>>
    /\ execs = <<>>
    /\ result = NoResult
    /\ spawned = {}
    /\ terminated = <<>>
    /\ pre = "none"
    /\ guiLog = <<>>
    /\ exitSince = FALSE
    /\ outcome = NoOutcome
    /\ event = "init"

ServeCollect ==
    /\ event = "init"
    /\ \E ro \in RunOutcomes : Collect("donpapi_collect", arguments, ro)

NextCollect == ServeCollect

SpecCollect == InitCollect /\ [][NextCollect]_vars

----------------------------------------------------------------------------
(* GUI Process Manager: properties *)

StartName == "donpapi_start_gui"
StopName  == "donpapi_stop_gui"

IsStartedText(r) == Len(r) = 4 /\ r[1] = "DonPAPI GUI started on http://"
IsFailedText(r)  == Len(r) = 2 /\ r[1] = "Failed to start GUI: "

\* the step is a call of the operation n
CallOf(n) == event' = "call" /\ lastCall' = n

\* the last GUI call before this one was a donpapi_start_gui that left a
\* tracked process: it answered "started" or "already running"
PreviousStartTracked ==
    /\ guiLog # <<>>
    /\ guiLog[Len(guiLog)].op = "start"
    /\ \/ IsStartedText(guiLog[Len(guiLog)].resp)
       \/ guiLog[Len(guiLog)].resp = AlreadyRunning

\* C1: a donpapi_start_gui call made while a handle is tracked and its
\* process is alive spawns nothing, leaves the handle and the processes as
\* they are, and answers 'GUI is already running.'
C1_StartWhileAliveIsNoOp ==
    [][(CallOf(StartName) /\ gui_process # None
            /\ procs[gui_process] \in Live)
        => /\ response' = AlreadyRunning
           /\ execs' = <<>>
           /\ spawned' = {}
           /\ gui_process' = gui_process
           /\ procs' = procs]_vars

C1_Witness ==
    /\ event = "call"
    /\ lastCall = StartName
    /\ pre = "alive"
    /\ response = AlreadyRunning
    /\ gui_process # None
    /\ procs[gui_process] = "alive"

\* C2 (as claimed): a donpapi_start_gui call that follows a donpapi_start_gui
\* call which left a tracked process, with no donpapi_stop_gui between them,
\* answers 'already running' and spawns nothing
C2_SecondStartAlreadyRunning ==
    [][(CallOf(StartName) /\ PreviousStartTracked)
        => /\ response' = AlreadyRunning
           /\ spawned' = {}]_vars

\* C2 (amended): such a second call answers 'already running' and spawns
\* nothing when the tracked process has not exited since the first call; when
\* it has exited, the second call does not answer 'already running' and
\* launches the GUI again
C2_SecondStartUnlessExited ==
    [][(CallOf(StartName) /\ PreviousStartTracked)
        => IF ~exitSince
           THEN /\ response' = AlreadyRunning
                /\ spawned' = {}
                /\ execs' = <<>>
           ELSE /\ response' # AlreadyRunning
                /\ Len(execs') = 1]_vars

C2_Witness ==
    /\ event = "call"
    /\ lastCall = StartName
    /\ Len(guiLog) = 2
    /\ guiLog[1].op = "start"
    /\ IsStartedText(guiLog[1].resp)
    /\ guiLog[2].op = "start"
    /\ guiLog[2].resp = AlreadyRunning
    /\ response = AlreadyRunning
    /\ spawned = {}

\* C3: after a successful donpapi_start_gui followed by donpapi_stop_gui the
\* handle is unset, and the next donpapi_start_gui does not answer 'already
\* running': it launches the GUI, and either the launch fails or the new
\* process is alive, is the handle, and the call answers 'started'
C3_StartAfterStopSpawns ==
    [][(/\ Len(guiLog) = 2
        /\ guiLog[1].op = "start"
        /\ IsStartedText(guiLog[1].resp)
        /\ guiLog[2].op = "stop")
        => /\ gui_process = None
           /\ CallOf(StartName)
                => /\ response' # AlreadyRunning
                   /\ Len(execs') = 1
                   /\ execs'[1].via = "Popen"
                   /\ IF outcome'.kind = "ok"
                      THEN /\ Cardinality(spawned') = 1
                           /\ gui_process' \in spawned'
                           /\ procs'[gui_process'] = "alive"
                           /\ response' = StartedText(arguments')
                      ELSE IsFailedText(response')]_vars

C3_Witness ==
    /\ event = "call"
    /\ lastCall = StartName
    /\ Len(guiLog) = 2
    /\ guiLog[1] = [op |-> "stop", resp |-> Stopped]
    /\ guiLog[2].op = "start"
    /\ IsStartedText(response)
    /\ pre = "none"
    /\ gui_process \in spawned

\* C4: donpapi_stop_gui answers 'GUI is not running.' exactly when no handle
\* is tracked, and then requests no termination and changes nothing; with a
\* handle tracked it calls terminate() once, on that process, unsets the
\* handle and answers 'DonPAPI GUI stopped.' while a process that was alive
\* has not yet exited.  The handle is unset after the call in both cases.
C4_StopContract ==
    [][CallOf(StopName)
        => /\ (response' = NotRunning) <=> (gui_process = None)
           /\ gui_process = None
                => /\ terminated' = <<>>
                   /\ procs' = procs
           /\ gui_process # None
                => /\ terminated' = <<gui_process>>
                   /\ response' = Stopped
                   /\ procs[gui_process] = "alive"
                        => procs'[gui_process] = "terminating"
                   /\ \A p \in Pids \ {gui_process} : procs'[p] = procs[p]
           /\ gui_process' = None]_vars

C4_Witness ==
    /\ event = "call"
    /\ lastCall = StopName
    /\ pre = "alive"
    /\ response = Stopped
    /\ gui_process = None
    /\ Len(terminated) = 1
    /\ procs[terminated[1]] = "terminating"

\* C5 (as claimed): whenever the spawn inside donpapi_start_gui fails, the
\* call answers 'Failed to start GUI: ...' and the handle is unset after it
C5_FailedSpawnLeavesHandleUnset ==
    [][(CallOf(StartName) /\ outcome'.kind = "error")
        => /\ IsFailedText(response')
           /\ gui_process' = None]_vars

\* C6 (as claimed): once the tracked process has exited on its own, the next
\* donpapi_start_gui launches the GUI instead of answering 'already running'
\* and a donpapi_stop_gui answers 'GUI is not running.'
C6_StaleHandleIsNoProcess ==
    [][(event' = "call" /\ gui_process # None
            /\ procs[gui_process] = "exited")
        => /\ lastCall' = StartName
                => /\ response' # AlreadyRunning
                   /\ Len(execs') = 1
           /\ lastCall' = StopName
                => response' = NotRunning]_vars

\* C6 (amended): once the tracked process has exited on its own, the next
\* donpapi_start_gui launches the GUI instead of answering 'already running';
\* a donpapi_stop_gui, which polls nothing, answers 'DonPAPI GUI stopped.',
\* unsets the stale handle and leaves every process as it was
C6_StaleHandleStartOnly ==
    [][(event' = "call" /\ gui_process # None
            /\ procs[gui_process] = "exited")
        => /\ lastCall' = StartName
                => /\ response' # AlreadyRunning
                   /\ Len(execs') = 1
                   /\ execs'[1].via = "Popen"
           /\ lastCall' = StopName
                => /\ response' = Stopped
                   /\ gui_process' = None
                   /\ \A p \in Pids : procs'[p] \in Live <=> procs[p] \in Live]_vars

C6_Witness ==
    /\ event = "call"
    /\ lastCall = StopName
    /\ pre = "exited"
    /\ response = Stopped
    /\ gui_process = None
    /\ Len(guiLog) = 2
    /\ guiLog[1].op = "start"
    /\ IsStartedText(guiLog[1].resp)

\* a call of every name, known or not, can be served
Accepting ==
    \A n \in Names :
        ENABLED (\E a \in ArgsFor(n), ro \in RunsFor(n), po \in PopensFor(n) :
                    CallTool(n, a, ro, po))

\* C9: the handle changes only in a donpapi_start_gui or donpapi_stop_gui
\* call; a donpapi_collect call, however its subprocess ends, and a call of
\* an unknown name leave the handle and the GUI processes as they are, the
\* unknown name is answered 'Unknown tool: <name>', and after such a call a
\* call of every operation is still served
C9_OnlyGuiCallsTouchHandle ==
    /\ [][/\ gui_process' # gui_process
                => event' = "call" /\ lastCall' \in {StartName, StopName}
          /\ (event' = "call" /\ lastCall' \notin {StartName, StopName})
                => /\ gui_process' = gui_process
                   /\ procs' = procs
                   /\ spawned' = {}
                   /\ terminated' = <<>>
                   /\ lastCall' # "donpapi_collect"
                        => response' = UnknownText(lastCall')]_vars
    /\ []((event = "call" /\ lastCall \notin {StartName, StopName})
            => Accepting)

C9_Witness ==
    /\ event = "call"
    /\ lastCall = "donpapi_collect"
    /\ outcome.kind = "timeout"
    /\ gui_process # None
    /\ procs[gui_process] = "alive"
    /\ guiLog # <<>>

\* C10 (as claimed): at most one GUI process spawned by the adapter is alive
\* at any time
C10_AtMostOneLiveGui ==
    Cardinality({p \in Pids : procs[p] \in Live}) <= 1

----------------------------------------------------------------------------
(* Command Runner: properties *)

\* the positions of s where a whitespace-free run begins, and where one ends
WordStarts(s) ==
    {i \in 1..Len(s) : s[i] \notin Whitespace
                        /\ (i = 1 \/ s[i - 1] \in Whitespace)}
WordEnds(s) ==
    {i \in 1..Len(s) : s[i] \notin Whitespace
                        /\ (i = Len(s) \/ s[i + 1] \in Whitespace)}

\* the n-th smallest element of the set of numbers S
Nth(S, n) == CHOOSE x \in S : Cardinality({y \in S : y < x}) = n - 1

\* toks are the whitespace-separated tokens of s, in order
IsTokenization(s, toks) ==
    /\ Len(toks) = Cardinality(WordStarts(s))
    /\ \A i \in 1..Len(toks) :
          toks[i] = SubSeq(s, Nth(WordStarts(s), i), Nth(WordEnds(s), i))

RECURSIVE DigitsValue(_)
DigitsValue(d) ==
    IF d = <<>> THEN 0
    ELSE 10 * DigitsValue(SubSeq(d, 1, Len(d) - 1))
         + (CHOOSE v \in 0..9 : Digit[v + 1] = d[Len(d)])

\* d is the decimal numeral of n
IsDecimalOf(d, n) ==
    /\ d # <<>>
    /\ \A i \in 1..Len(d) : \E v \in 0..9 : Digit[v + 1] = d[i]
    /\ Len(d) > 1 => d[1] # "0"
    /\ DigitsValue(d) = n

\* the flag group of a parameter that is passed with its value
Group(a, k, flag) == IF k \in DOMAIN a THEN <<flag, a[k]>> ELSE <<>>

\* C7: the args vector handed to the runner is 'collect', then -u username,
\* -p password, -d domain, -H hashes, a bare -k, -t with every
\* whitespace-separated token of targets as an element of its own,
\* -c collectors, --threads threads: each group exactly when its parameter
\* is in the bundle (-k exactly when use_kerberos is true), nothing else
C7_ArgsFollowBundle ==
    event = "call" =>
        /\ Len(runner_args) = 1
        /\ LET v    == runner_args[1]
               a    == arguments
               head == <<T_collect>>
                       \o Group(a, "username", T_u)
                       \o Group(a, "password", T_p)
                       \o Group(a, "domain", T_d)
                       \o Group(a, "hashes", T_H)
                       \o (IF "use_kerberos" \in DOMAIN a
                              /\ a["use_kerberos"] = TRUE
                           THEN <<T_k>> ELSE <<>>)
               nc   == IF "collectors" \in DOMAIN a THEN 2 ELSE 0
               nt   == IF "threads" \in DOMAIN a THEN 2 ELSE 0
               mid  == SubSeq(v, Len(head) + 1, Len(v) - nc - nt)
               opts == SubSeq(v, Len(v) - nc - nt + 1, Len(v))
           IN  /\ Len(v) >= Len(head) + nc + nt
               /\ SubSeq(v, 1, Len(head)) = head
               /\ IF "targets" \in DOMAIN a
                  THEN /\ mid # <<>>
                       /\ mid[1] = T_t
                       /\ IsTokenization(a["targets"], Tail(mid))
                  ELSE mid = <<>>
               /\ nc = 2 => opts[1] = T_c /\ opts[2] = a["collectors"]
               /\ nt = 2 => /\ opts[nc + 1] = T_threads
                            /\ IsDecimalOf(opts[nc + 2], a["threads"])

C7_Witness ==
    /\ event = "call"
    /\ DOMAIN arguments = CollectKeys
    /\ arguments["use_kerberos"] = TRUE
    /\ arguments["targets"] = <<"a", " ", "a">>
    /\ arguments["threads"] = 50
    /\ Len(runner_args[1]) = 17

\* C8: a donpapi_collect call launches one subprocess, once, and its result
\* has the shape its ending fixes: after an exit, success = (exit code is 0)
\* with stdout, stderr and the command line, and no error; after a timeout,
\* success = false and an error naming the timeout; after any other
\* failure, success = false and the exception's description as the error
C8_OneRunOneResult ==
    event = "call" =>
        /\ Len(execs) = 1
        /\ execs[1].via = "run"
        /\ Len(runner_args) = 1
        /\ execs[1].cmd = <<T_donpapi>> \o runner_args[1]
        /\ outcome.kind \in {"exit", "timeout", "error"}
        /\ outcome.kind = "exit" =>
              /\ DOMAIN result = {"success", "stdout", "stderr", "command"}
              /\ result.success = (outcome.returncode = 0)
              /\ result.stdout = outcome.stdout
              /\ result.stderr = outcome.stderr
              /\ IsTokenization(result.command, execs[1].cmd)
              /\ \A i \in 1..Len(result.command) :
                    /\ result.command[i] \in Whitespace
                          => result.command[i] = " "
                    /\ (i > 1 /\ result.command[i] = " ")
                          => result.command[i - 1] # " "
              /\ result.command[1] # " "
              /\ result.command[Len(result.command)] # " "
        /\ outcome.kind = "timeout" =>
              /\ DOMAIN result = {"success", "error"}
              /\ result.success = FALSE
              /\ \E i, j \in 1..Len(result.error) :
                    IsDecimalOf(SubSeq(result.error, i, j), DefaultTimeout)
        /\ outcome.kind = "error" =>
              /\ DOMAIN result = {"success", "error"}
              /\ result.success = FALSE
              /\ result.error = outcome.desc

C8_Witness ==
    /\ event = "call"
    /\ lastCall = "donpapi_collect"
    /\ outcome.kind = "exit"
    /\ outcome.returncode = 1
    /\ "error" \notin DOMAIN result
    /\ result.success = FALSE
    /\ Len(execs) = 1

====
